---- MODULE Spec2Model ----
(***************************************************************************)
(* Model of the two-pass SOP pipeline: Pass 1 (src/index.js) turns each    *)
(* application record into a prompt file, Pass 2 (src/generateSOP.js)      *)
(* turns each prompt file into an SOP file.  The record store is the CSV   *)
(* file read and rewritten by csvService.                                  *)
(*                                                                         *)
(* Strings are modelled as sequences of tokens (a token stands for one     *)
(* character or one run of letters), so that trim(), includes(), the       *)
(* regular-expression replaces and the file-name derivation are computed   *)
(* as the code computes them.                                              *)
(***************************************************************************)
EXTENDS Integers, Sequences, FiniteSets, TLC

\* ------------------------------------------------------------------ bounds
MaxRecords == 2
MaxRuns == 2
MaxPromptLen == 3

\* ------------------------------------------------------- strings as tokens
\* JavaScript undefined (a column the CSV does not have).
Undefined == <<"#undefined">>
EmptyStr == <<>>

\* JavaScript null (readResumeContent's "no resume").
Null == <<"#null">>

\* JavaScript truthiness of a string, undefined or null.
Falsy(v) == v = Undefined \/ v = Null \/ v = EmptyStr
Truthy(v) == ~Falsy(v)

IsSpace(t) == t = " "

RECURSIVE TrimStart(_)
TrimStart(s) ==
  IF s = <<>> THEN <<>>
  ELSE IF IsSpace(Head(s)) THEN TrimStart(Tail(s)) ELSE s

RECURSIVE TrimEnd(_)
TrimEnd(s) ==
  IF s = <<>> THEN <<>>
  ELSE IF IsSpace(s[Len(s)]) THEN TrimEnd(SubSeq(s, 1, Len(s) - 1)) ELSE s

\* String.prototype.trim
Trim(s) == TrimEnd(TrimStart(s))

\* String.prototype.includes for a one-token needle
Includes(s, tok) == \E k \in 1..Len(s) : s[k] = tok

\* String.prototype.startsWith for a one-token prefix
StartsWith(s, tok) == Len(s) > 0 /\ s[1] = tok

\* toLowerCase on the tokens the model uses
Lower(t) ==
  CASE t = "AI" -> "ai"
    [] t = "ML" -> "ml"
    [] t = "MIT" -> "mit"
    [] t = "Unknown" -> "unknown"
    [] t = "Course" -> "course"
    [] t = "University" -> "university"
    [] OTHER -> t

\* the characters sanitizeFileName deletes: < > : " / \ | ? *
Forbidden == {"<", ">", ":", "\"", "/", "\\", "|", "?", "*"}

\* name.replace(/\s+/g, '_'): every maximal run of whitespace becomes one '_'
RECURSIVE SpacesToUnderscore(_)
SpacesToUnderscore(s) ==
  IF s = <<>> THEN <<>>
  ELSE IF IsSpace(Head(s))
       THEN <<"_">> \o SpacesToUnderscore(TrimStart(s))
       ELSE <<Head(s)>> \o SpacesToUnderscore(Tail(s))

\* .replace(/[<>:"/\\|?*]+/g, '')
StripForbidden(s) == SelectSeq(s, LAMBDA t : t \notin Forbidden)

LowerAll(s) == [k \in 1..Len(s) |-> Lower(s[k])]

sanitizeFileName(name) ==
  IF ~Truthy(name) THEN <<"untitled">>
  ELSE LowerAll(StripForbidden(SpacesToUnderscore(name)))

\* ------------------------------------------------------------ configuration
\* config.paths: data, csvFile, prompts and resumes are set; there is no
\* `sops` key, so config.paths.sops evaluates to undefined.
paths_prompts == <<"prompts">>
paths_sops == Undefined

\* path.join(dir, fileName) / path.basename(p), with "/" as a token
PathJoin(dir, fileName) == dir \o <<"/">> \o fileName

RECURSIVE Basename(_)
Basename(p) ==
  IF ~Includes(p, "/") THEN p ELSE Basename(Tail(p))

\* ------------------------------------------------ results of throwing code
NoErr == "none"

\* a variant that checks the Gemini key only
ConfigLoads_GeminiOnly(keys) == keys.GEMINI_API_KEY

\* config.js lines 5-9: both keys must be set, or the process exits
ConfigLoads(keys) == keys.GEMINI_API_KEY /\ keys.OPENROUTER_API_KEY

\* a variant that steps over every other record
NextRecord_SkipsOne(i) == i + 2

\* for (const app of ...): the loop goes on with the next record
NextRecord(i) == i + 1

\* a variant whose loop is left after the first record
LoopDone_AfterFirst(i, n) == i > 1

\* the for-of loops of both main()s end after the last record
LoopDone(i, n) == i > n

\* -------------------------------------------------- replies of the outside
\* What fetch(url) can answer: a transport error, a non-ok status, or a page.
FetchReplies ==
  { [kind |-> "transport", html |-> <<>>],
    [kind |-> "http", html |-> <<>>],
    [kind |-> "ok", html |-> <<"<p>", "MSc", " ", " ", "AI", "</p>">>],
    [kind |-> "ok", html |-> <<"<p>", " ", "</p>">>] }

NoReply == [kind |-> "unused", html |-> <<>>]

IsTag(t) == t \in {"<p>", "</p>"}

\* html.replace(/<[^>]+>/g, ' ')
TagsToSpace(s) == [k \in 1..Len(s) |-> IF IsTag(s[k]) THEN " " ELSE s[k]]

\* .replace(/\s\s+/g, ' '): a run of two or more whitespace becomes one space
RECURSIVE CollapseSpaces(_)
CollapseSpaces(s) ==
  IF s = <<>> THEN <<>>
  ELSE IF IsSpace(Head(s))
       THEN <<" ">> \o CollapseSpaces(TrimStart(s))
       ELSE <<Head(s)>> \o CollapseSpaces(Tail(s))

\* fileUtils.fetchCourseTextFromUrl: the error is logged and re-thrown
fetchCourseTextFromUrl(reply) ==
  IF reply.kind = "transport" THEN [err |-> "fetch failed", val |-> <<>>]
  ELSE IF reply.kind # "ok" THEN [err |-> "HTTP error! Status", val |-> <<>>]
  ELSE [err |-> NoErr, val |-> Trim(CollapseSpaces(TagsToSpace(reply.html)))]

\* The JSON objects the Gemini model may answer with (a missing key is
\* Undefined), and the other ways the call can end.
GeminiData ==
  { [courseName |-> <<"AI">>, universityName |-> <<"MIT">>,
     country |-> <<"US">>, summary |-> <<"s1">>],
    [courseName |-> Undefined, universityName |-> Undefined,
     country |-> Undefined, summary |-> Undefined] }

NoData == [courseName |-> Undefined, universityName |-> Undefined,
           country |-> Undefined, summary |-> Undefined]

\* Every object with each key missing, empty or set.
GeminiObjects ==
  [courseName : {Undefined, EmptyStr, <<"AI">>},
   universityName : {Undefined, EmptyStr, <<"MIT">>},
   country : {Undefined, EmptyStr, <<"US">>},
   summary : {Undefined, EmptyStr, <<"s1">>}]

\* The text of the first candidate part: what is between the code fences
\* ("object": a JSON object; "null": the JSON text null; "scalar": a JSON
\* number, string or boolean; "invalid": not JSON, the empty text included),
\* and the fence the model wrapped it in ("fence_json": the mark followed by
\* json, "fence": the bare mark).
Fences == {"none", "fence_json", "fence"}
Payload(type, data) == [type |-> type, data |-> data]
ModelText(fence, payload) == [fence |-> fence, payload |-> payload]
NoText == ModelText("none", Payload("invalid", NoData))

GeminiReply(kind, body, text) == [kind |-> kind, body |-> body, text |-> text]

\* the replies the passes are run against
GeminiReplies ==
  { GeminiReply("transport", "none", NoText),
    GeminiReply("http", "none", NoText),
    GeminiReply("ok", "json", NoText) }
  \cup { GeminiReply("ok", "json", ModelText("fence_json", Payload("object", d))) :
           d \in GeminiData }

\* every reply: the body of an ok response may not be JSON, the text may be
\* fenced or not, and may hold any payload
AllGeminiReplies ==
  { GeminiReply("transport", "none", NoText),
    GeminiReply("http", "none", NoText),
    GeminiReply("ok", "notjson", NoText) }
  \cup { GeminiReply("ok", "json", ModelText(f, pl)) :
           f \in Fences,
           pl \in { Payload("object", d) : d \in GeminiObjects }
                  \cup { Payload("null", NoData), Payload("scalar", NoData),
                         Payload("invalid", NoData) } }

NoGemini == GeminiReply("unused", "none", NoText)

Or(v, dflt) == IF Falsy(v) THEN dflt ELSE v

\* promptService.js line 79: both fence marks are removed, the rest trimmed
CleanFences(text) == [text EXCEPT !.fence = "none"]

\* JSON.parse: a text that still has a fence, or whose payload is not JSON,
\* throws
JSONparse(text) ==
  IF text.fence # "none" \/ text.payload.type = "invalid"
  THEN [err |-> "Unexpected token", val |-> Payload("invalid", NoData)]
  ELSE [err |-> NoErr, val |-> text.payload]

\* geminiService.extractMetadataAndInfo
extractMetadataAndInfo(reply) ==
  LET none == [course |-> <<>>, university |-> <<>>, country |-> <<>>,
               courseInfo |-> <<>>] IN
  IF reply.kind = "transport" THEN [err |-> "fetch failed", val |-> none]
  ELSE IF reply.kind = "http" THEN [err |-> "API request failed", val |-> none]
  ELSE IF reply.body = "notjson"
       THEN [err |-> "Unexpected token in body", val |-> none]
  ELSE
  LET parsed == JSONparse(CleanFences(reply.text)) IN
  IF parsed.err # NoErr THEN [err |-> parsed.err, val |-> none]
  ELSE IF parsed.val.type = "null"
       THEN [err |-> "Cannot read properties of null", val |-> none]
  ELSE
  LET data == parsed.val.data IN
  [err |-> NoErr,
   val |-> [course |-> Or(data.courseName, <<"Unknown", " ", "Course">>),
            university |-> Or(data.universityName,
                               <<"Unknown", " ", "University">>),
            country |-> Or(data.country, <<"Unknown", " ", "Country">>),
            courseInfo |-> Or(data.summary, <<"Info not available.">>)]]

\* What reading resume/<filename>.pdf can give.
ResumeReplies == {"missing", "unparsable", "text"}

\* fileUtils.readResumeContent
readResumeContent(filename, reply) ==
  IF Falsy(filename) THEN Null
  ELSE IF reply = "missing" THEN Null
  ELSE IF reply = "unparsable" THEN Null
  ELSE <<"cvtext">>

\* promptService.buildSOPPrompt: the template with its interpolations
buildSOPPrompt(metadata, resumeContent) ==
  LET resumeSection ==
        IF ~Falsy(resumeContent)
        THEN <<"--- My Resume Information ---">> \o resumeContent
             \o <<"Now, using the above">>
        ELSE <<"Please take all the required details">>
  IN <<"I am applying to the Master's in ">> \o metadata.course
     \o <<" at ">> \o metadata.university
     \o <<" in ">> \o metadata.country
     \o resumeSection
     \o <<"1st Paragraph">> \o metadata.course
     \o <<"4th Paragraph">> \o metadata.university
     \o <<"5th Paragraph">> \o metadata.country
     \o <<"Here is the course information:">> \o metadata.courseInfo

\* index.js processApplication, lines 33-36: the prompt file's name
PromptFileName(metadata) ==
  sanitizeFileName(metadata.course) \o <<"_">>
  \o sanitizeFileName(metadata.university) \o <<"_prompt.txt">>

\* a variant that returns the path whether or not the file was written
savePromptToFile_IgnoresError(fileName, reply) ==
  [err |-> NoErr, val |-> PathJoin(paths_prompts, fileName)]

\* fileUtils.savePromptToFile: mkdir if needed, writeFileSync, return the path.
\* `reply` is what the file system answers: "ok" or "fail" (EACCES, ENOSPC...).
savePromptToFile(fileName, reply) ==
  IF reply = "ok"
  THEN [err |-> NoErr, val |-> PathJoin(paths_prompts, fileName)]
  ELSE [err |-> "EACCES: permission denied", val |-> <<>>]

\* ---------------------------------------------------------------- sentinels
FAILED_PROCESSING == <<"FAILED", "_PROCESSING">>
FAILED_MISSING_PROMPT == <<"FAILED", "_MISSING_PROMPT">>

\* ------------------------------------------------- Pass 1, processApplication
\* index.js processApplication(app) under the replies `env` of the outside:
\* err is the thrown error's message (NoErr when it returns), calls the
\* external calls it made, in order.
NoMetadata == [course |-> <<>>, university |-> <<>>, country |-> <<>>,
               courseInfo |-> <<>>]

P1Result(err, metadata, path, prompt, calls) ==
  [err |-> err, courseName |-> metadata.course,
   universityName |-> metadata.university, promptPath |-> path,
   prompt |-> prompt, calls |-> calls]

\* a variant that gives up on a record whose resume was asked for and not read
ResumeUnreadableAborts_Throws(app, resumeContent) ==
  Truthy(app.resumeFile) /\ Falsy(resumeContent)

\* index.js lines 26-28: an unread resume is only a warning
ResumeUnreadableAborts(app, resumeContent) == FALSE

processApplication(app, env) ==
  IF app.courseInput = Undefined
  THEN P1Result("Cannot read properties of undefined", NoMetadata, <<>>, <<>>,
                <<>>)
  ELSE
  LET isUrl == StartsWith(app.courseInput, "http")
      fetched == IF isUrl THEN fetchCourseTextFromUrl(env.fetch)
                 ELSE [err |-> NoErr, val |-> app.courseInput]
      c1 == IF isUrl THEN <<"fetch">> ELSE <<>>
  IN
  IF fetched.err # NoErr
  THEN P1Result(fetched.err, NoMetadata, <<>>, <<>>, c1)
  ELSE IF Falsy(fetched.val)
  THEN P1Result("Could not retrieve course text.", NoMetadata, <<>>, <<>>, c1)
  ELSE
  LET extracted == extractMetadataAndInfo(env.gemini)
      c2 == c1 \o <<"extract">>
  IN
  IF extracted.err # NoErr
  THEN P1Result(extracted.err, NoMetadata, <<>>, <<>>, c2)
  ELSE
  LET metadata == extracted.val
      resumeContent == readResumeContent(app.resumeFile, env.resume)
      c3 == IF Truthy(app.resumeFile) THEN c2 \o <<"readResume">> ELSE c2
      sopPrompt == buildSOPPrompt(metadata, resumeContent)
      saved == savePromptToFile(PromptFileName(metadata), env.write)
      c4 == c3 \o <<"writeFile">>
  IN
  IF ResumeUnreadableAborts(app, resumeContent)
  THEN P1Result("Could not read resume", NoMetadata, <<>>, <<>>, c3)
  ELSE IF saved.err # NoErr
  THEN P1Result(saved.err, NoMetadata, <<>>, <<>>, c4)
  ELSE P1Result(NoErr, metadata, saved.val, sopPrompt, c4)

\* a variant that skips real paths only, so that failed records are retried
Pass1Skips_RetriesFailed(app) ==
  /\ Truthy(app.promptPath) /\ Trim(app.promptPath) # EmptyStr
  /\ ~Includes(app.promptPath, "FAILED")

\* index.js main, line 62: "Skip if already processed"
Pass1Skips(app) == Truthy(app.promptPath) /\ Trim(app.promptPath) # EmptyStr

\* index.js main, lines 68-71: the record after a successful processApplication
Pass1Success(app, result) ==
  [app EXCEPT !.courseName = result.courseName,
              !.universityName = result.universityName,
              !.promptPath = result.promptPath]

\* a variant whose catch block only logs
Pass1Failure_OnlyLogs(app, result) == app

\* index.js main, lines 73-77: the catch block
Pass1Failure(app, result) == [app EXCEPT !.promptPath = FAILED_PROCESSING]

\* a variant that calls processApplication outside the try block
Pass1Propagates_Uncaught(result) == result.err # NoErr

\* index.js main, lines 66 and 73: processApplication is awaited inside the try
\* block, so no error it throws leaves the loop
Pass1Propagates(result) == FALSE

\* a variant that rewrites the store after each record
SavesAfterRecord_Always(i) == TRUE

\* index.js main, lines 60-78: nothing in the loop body writes the store
SavesAfterRecord(i) == FALSE

\* a variant that counts every attempt
Pass1Counts_Attempts(count, succeeded) == count + 1

\* index.js main, line 72: processedCount++ after a successful record only
Pass1Counts(count, succeeded) == IF succeeded THEN count + 1 ELSE count

\* a variant that persists after every sweep
Pass1Persists_Always(count) == count >= 0

\* index.js main, line 80: the end-of-pass persistence decision
Pass1Persists(count) == count > 0

\* ------------------------------------------------- Pass 2, processApplication
\* What the OpenRouter endpoint can answer.
OpenRouterReplies ==
  { [kind |-> "transport", content |-> Undefined],
    [kind |-> "http", content |-> Undefined],
    [kind |-> "ok", content |-> Undefined],
    [kind |-> "ok", content |-> <<"Dear", " ", "committee">>] }

NoOpenRouter == [kind |-> "unused", content |-> Undefined]

\* Every reply: the body of an ok response may not be JSON, and its content
\* may be missing, null, empty, or a text with or without blanks around it.
AllOpenRouterReplies ==
  { [kind |-> "transport", content |-> Undefined],
    [kind |-> "http", content |-> Undefined],
    [kind |-> "notjson", content |-> Undefined] }
  \cup { [kind |-> "ok", content |-> c] :
           c \in { Undefined, Null, EmptyStr, <<"Dear", " ", "committee">>,
                   <<" ", "Dear", " ">>, <<"Dear">> } }

\* openRouterProvider.generateSopFromPrompt, lines 140-143: the request body
\* carries the prompt as the content of the one user message
OpenRouterRequest(promptText) == [role |-> "user", content |-> promptText]

\* a variant that trims the text it returns
generateSopFromPrompt_Trims(promptText, reply) ==
  IF reply.kind = "transport" THEN [err |-> "fetch failed", val |-> <<>>]
  ELSE IF reply.kind = "notjson" THEN [err |-> "Unexpected token", val |-> <<>>]
  ELSE IF reply.kind # "ok"
       THEN [err |-> "OpenRouter API request failed", val |-> <<>>]
  ELSE IF Falsy(reply.content)
       THEN [err |-> "No content found in OpenRouter API response.",
             val |-> <<>>]
  ELSE [err |-> NoErr, val |-> Trim(reply.content)]

\* openRouterProvider.generateSopFromPrompt: the error is logged and re-thrown
generateSopFromPrompt(promptText, reply) ==
  IF reply.kind = "transport" THEN [err |-> "fetch failed", val |-> <<>>]
  ELSE IF reply.kind = "notjson" THEN [err |-> "Unexpected token", val |-> <<>>]
  ELSE IF reply.kind # "ok"
       THEN [err |-> "OpenRouter API request failed", val |-> <<>>]
  ELSE IF Falsy(reply.content)
       THEN [err |-> "No content found in OpenRouter API response.",
             val |-> <<>>]
  ELSE [err |-> NoErr, val |-> reply.content]

\* promptFileName.replace(/_prompt\.txt$/i, '_sop.txt')
SopFileName(promptFileName) ==
  IF promptFileName # <<>>
     /\ promptFileName[Len(promptFileName)] \in {"_prompt.txt", "_PROMPT.TXT"}
  THEN SubSeq(promptFileName, 1, Len(promptFileName) - 1) \o <<"_sop.txt">>
  ELSE promptFileName

P2Result(err, path, text, calls) ==
  [err |-> err, sopPath |-> path, sopText |-> text, calls |-> calls]

\* generateSOP.js processApplication, lines 21-42: generate, derive the SOP
\* file's path, write it
GenerateAndSave(app, env) ==
  LET generated == generateSopFromPrompt(env.promptText, env.openRouter)
      c1 == <<"existsSync", "readFile", "generate">>
  IN
  IF generated.err # NoErr
  THEN P2Result(generated.err, <<>>, <<>>, c1)
  ELSE IF paths_sops = Undefined
  \* fs.existsSync(undefined) is false, fs.mkdirSync(undefined) throws
  THEN P2Result("The \"path\" argument must be of type string", <<>>, <<>>,
                c1 \o <<"mkdir">>)
  ELSE IF env.write # "ok"
  THEN P2Result("EACCES: permission denied", <<>>, <<>>, c1 \o <<"writeFile">>)
  ELSE P2Result(NoErr,
                PathJoin(paths_sops, SopFileName(Basename(app.promptPath))),
                generated.val, c1 \o <<"writeFile">>)

\* a variant that reports an unreadable prompt file as a missing one
generateSOP_processApplication_UnreadableIsMissing(app, exists, readable, env) ==
  IF Falsy(app.promptPath) \/ ~exists
  THEN P2Result("PROMPT_FILE_MISSING", <<>>, <<>>, <<"existsSync">>)
  ELSE IF ~readable
  THEN P2Result("PROMPT_FILE_MISSING", <<>>, <<>>, <<"existsSync", "readFile">>)
  ELSE GenerateAndSave(app, env)

\* generateSOP.js processApplication(app): `exists` and `readable` are what the
\* file system says of app.promptPath, env the replies of the outside.
generateSOP_processApplication(app, exists, readable, env) ==
  IF Falsy(app.promptPath) \/ ~exists
  THEN P2Result("PROMPT_FILE_MISSING", <<>>, <<>>, <<"existsSync">>)
  ELSE IF ~readable
  THEN P2Result("EACCES: permission denied, open", <<>>, <<>>,
                <<"existsSync", "readFile">>)
  ELSE GenerateAndSave(app, env)

\* a variant whose filter lets records marked as failed through
Pass2Eligible_TakesFailed(app) ==
  /\ Truthy(app.promptPath)
  /\ (Falsy(app.sopPath) \/ Trim(app.sopPath) = EmptyStr)

\* a variant whose filter forgets the sopPath column
Pass2Eligible_IgnoresSopPath(app) ==
  /\ Truthy(app.promptPath)
  /\ ~Includes(app.promptPath, "FAILED")

\* generateSOP.js main, lines 51-53: the filter that builds appsToProcess
Pass2Eligible(app) ==
  /\ Truthy(app.promptPath)
  /\ ~Includes(app.promptPath, "FAILED")
  /\ (Falsy(app.sopPath) \/ Trim(app.sopPath) = EmptyStr)

\* generateSOP.js main, lines 72-76: the record after a successful run
Pass2Success(app, result) == [app EXCEPT !.sopPath = result.sopPath]

\* a variant that puts the mark of a missing prompt file in the promptPath column
Pass2Failure_MarksPromptPath(app, result) ==
  IF result.err = "PROMPT_FILE_MISSING"
  THEN [app EXCEPT !.promptPath = FAILED_MISSING_PROMPT]
  ELSE app

\* a variant that marks every failure as permanent
Pass2Failure_MarksAll(app, result) ==
  [app EXCEPT !.sopPath = FAILED_MISSING_PROMPT]

\* generateSOP.js main, lines 77-89: the catch block
Pass2Failure(app, result) ==
  IF result.err = "PROMPT_FILE_MISSING"
  THEN [app EXCEPT !.sopPath = FAILED_MISSING_PROMPT]
  ELSE app

\* a variant that forgets hasChanges in the catch block
Pass2Changes_OnlyOnSuccess(changed, result) ==
  IF result.err = NoErr THEN TRUE ELSE changed

\* generateSOP.js main, lines 76 and 85: what the outcome does to hasChanges
Pass2Changes(changed, result) ==
  IF result.err = NoErr \/ result.err = "PROMPT_FILE_MISSING" THEN TRUE
  ELSE changed

\* generateSOP.js main, lines 71 and 77: processApplication is awaited inside
\* the try block, so no error it throws leaves the loop
Pass2Propagates(result) == FALSE

\* a variant that decides as Pass 1 does, on the processed count
Pass2Persists_OnCount(changed, count) == count > 0

\* generateSOP.js main, line 92: the end-of-pass persistence decision
Pass2Persists(changed, count) == changed

\* ------------------------------------------------------------- record store
\* config.csvHeaders: the columns writeApplications writes
csvHeaders == <<"candidateName", "resumeFile", "courseInput", "courseName",
                "universityName", "promptPath", "sopPath">>

\* a variant that writes an absent field as it is held in memory
CsvCell_Literal(v) == v

\* csv-writer renders a field that is undefined or null as the empty string
CsvCell(v) == IF v = Undefined \/ v = Null THEN EmptyStr ELSE v

\* a variant that leaves the last record out of the rewrite
writeApplications_DropsLast(data) ==
  [k \in 1..(Len(data) - 1) |->
     [f \in {csvHeaders[j] : j \in 1..Len(csvHeaders)} |-> CsvCell(data[k][f])]]

\* a variant that leaves the records marked as failed out of the rewrite
writeApplications_SkipsFailed(data) ==
  LET kept == SelectSeq(data, LAMBDA r : ~(Truthy(r.promptPath)
                                            /\ Includes(r.promptPath, "FAILED")))
  IN [k \in 1..Len(kept) |->
        [f \in {csvHeaders[j] : j \in 1..Len(csvHeaders)} |-> CsvCell(kept[k][f])]]

\* csvService.writeApplications: the file's rows after the rewrite
writeApplications(data) ==
  [k \in 1..Len(data) |->
     [f \in {csvHeaders[j] : j \in 1..Len(csvHeaders)} |-> CsvCell(data[k][f])]]

\* csvService.readApplications: one object per row, one key per header column
readApplications(exists, rows) == IF exists THEN rows ELSE <<>>

\* -------------------------------------------------------------------- state
VARIABLES
  csvExists,       \* data/applications.csv exists
  csv,             \* its rows (objects keyed by header column)
  files,           \* the prompt and SOP files on disk: path -> contents
  unreadable,      \* paths that exist but cannot be read (EACCES)
  resumePdf,       \* what reading resume/cv.pdf gives: a ResumeReplies value
  pass,            \* which script is running: 0 none, 1 index.js, 2 generateSOP.js
  pc,              \* "idle", "loop", "done", "fatal", "exited", "killed"
  applications,    \* the in-memory array of main()
  idx,             \* position of the for-of loop, 1-based
  processedCount,  \* main's processedCount
  hasChanges,      \* generateSOP.js main's hasChanges
  appsToProcess,   \* generateSOP.js main's filter result, as positions
  events,          \* this run's calls and outcomes, in order: <<op, position>>
  writes,          \* this run's fs.writeFileSync calls: position, path, text
  markedFailed,    \* positions whose promptPath some run set to FAILED_PROCESSING
  runsLeft,        \* runs that may still be started
  apiKeys,         \* which of the two API keys the environment (.env) holds
  probe,           \* a single call of a pure function: its input and its result
  other            \* the memory of a second process that runs generateSOP.js

vars == <<csvExists, csv, files, unreadable, resumePdf, pass, pc, applications, idx,
          processedCount, hasChanges, appsToProcess, events, writes,
          markedFailed, runsLeft, apiKeys, probe, other>>

storeVars == <<csvExists, csv>>
diskVars == <<files, unreadable, resumePdf>>
envVars == <<apiKeys, probe, other>>

\* The environments a run can start in: each key is set or not.
KeySets == [GEMINI_API_KEY : BOOLEAN, OPENROUTER_API_KEY : BOOLEAN]

\* no pure-function call is being followed
NoProbe == [fn |-> "none"]

\* no second process
NoOther == [pc |-> "none"]

\* no script is running
NotRunning == pc \in {"idle", "done", "fatal", "exited", "killed"}

CandidateNames == <<"cand1", "cand2", "cand3", "cand4">>

\* The rows a user puts in applications.csv: candidateName, resumeFile and
\* courseInput; the four derived columns are either missing from the header
\* (Undefined once read) or present and empty.
UserInputs ==
  { [resumeFile |-> <<>>, courseInput |-> <<"MSc", " ", "AI">>],
    [resumeFile |-> <<"cv">>, courseInput |-> <<"http", "://u/ai">>],
    [resumeFile |-> <<>>, courseInput |-> <<>>] }

NewRow(k, resume, course, blank) ==
  [candidateName |-> <<CandidateNames[k]>>, resumeFile |-> resume,
   courseInput |-> course, courseName |-> blank, universityName |-> blank,
   promptPath |-> blank, sopPath |-> blank]

InitialStores ==
  UNION { { [k \in 1..n |-> NewRow(k, us[k].resumeFile, us[k].courseInput,
                                    blank)] : us \in [1..n -> UserInputs] } :
          n \in 0..MaxRecords, blank \in {Undefined, EmptyStr} }

Init ==
  /\ csvExists \in BOOLEAN
  /\ csv \in InitialStores
  /\ (~csvExists => csv = <<>>)
  /\ files = <<>>
  /\ unreadable = {}
  /\ resumePdf \in ResumeReplies
  /\ pass = 0
  /\ pc = "idle"
  /\ applications = <<>>
  /\ idx = 1
  /\ processedCount = 0
  /\ hasChanges = FALSE
  /\ appsToProcess = {}
  /\ events = <<>>
  /\ writes = <<>>
  /\ markedFailed = {}
  /\ runsLeft = MaxRuns
  /\ apiKeys \in KeySets
  /\ probe = NoProbe
  /\ other = NoOther

Ev(op, k) == <<op, k>>
EvsOf(calls, k) == [j \in 1..Len(calls) |-> Ev(calls[j], k)]

Exists(path) == path \in DOMAIN files
WriteFile(path, content) ==
  [q \in (DOMAIN files) \cup {path} |-> IF q = path THEN content ELSE files[q]]

\* ------------------------------------------------------------ startup
\* config.js lines 5-9, run when index.js (lines 2-6) or generateSOP.js
\* (lines 3-6) load their modules, before main() is called: a missing key
\* ends the process with exit code 1.
StartupFails ==
  /\ NotRunning
  /\ runsLeft > 0
  /\ ~ConfigLoads(apiKeys)
  /\ runsLeft' = runsLeft - 1
  /\ \E p \in {1, 2} : pass' = p
  /\ pc' = "exited"
  /\ applications' = <<>>
  /\ idx' = 1
  /\ processedCount' = 0
  /\ hasChanges' = FALSE
  /\ appsToProcess' = {}
  /\ events' = <<>>
  /\ writes' = <<>>
  /\ UNCHANGED <<storeVars, diskVars, markedFailed, envVars>>

\* ------------------------------------------------------------ Pass 1: main
\* index.js main, lines 50-59: read the store; an empty collection ends the run.
\* readApplications creates a header-only file when there is none.
Pass1Start ==
  /\ NotRunning
  /\ ConfigLoads(apiKeys)
  /\ runsLeft > 0
  /\ runsLeft' = runsLeft - 1
  /\ pass' = 1
  /\ csvExists' = TRUE
  /\ csv' = csv
  /\ applications' = readApplications(csvExists, csv)
  /\ pc' = IF Len(applications') = 0 THEN "done" ELSE "loop"
  /\ idx' = 1
  /\ processedCount' = 0
  /\ hasChanges' = FALSE
  /\ appsToProcess' = {}
  /\ events' = <<>>
  /\ writes' = <<>>
  /\ UNCHANGED <<diskVars, markedFailed>>
  /\ UNCHANGED envVars

\* a failure of the record store read rejects main(): the top-level catch logs it
Pass1ReadFails ==
  /\ NotRunning
  /\ ConfigLoads(apiKeys)
  /\ runsLeft > 0
  /\ csvExists
  /\ runsLeft' = runsLeft - 1
  /\ pass' = 1
  /\ pc' = "fatal"
  /\ applications' = <<>>
  /\ idx' = 1
  /\ processedCount' = 0
  /\ hasChanges' = FALSE
  /\ appsToProcess' = {}
  /\ events' = <<>>
  /\ writes' = <<>>
  /\ UNCHANGED <<storeVars, diskVars, markedFailed>>
  /\ UNCHANGED envVars

\* the same for generateSOP.js main, line 48
Pass2ReadFails ==
  /\ NotRunning
  /\ ConfigLoads(apiKeys)
  /\ runsLeft > 0
  /\ csvExists
  /\ runsLeft' = runsLeft - 1
  /\ pass' = 2
  /\ pc' = "fatal"
  /\ applications' = <<>>
  /\ idx' = 1
  /\ processedCount' = 0
  /\ hasChanges' = FALSE
  /\ appsToProcess' = {}
  /\ events' = <<>>
  /\ writes' = <<>>
  /\ UNCHANGED <<storeVars, diskVars, markedFailed>>
  /\ UNCHANGED envVars

\* index.js main, lines 60-64: a record that is already processed is skipped
Pass1Skip ==
  /\ pass = 1 /\ pc = "loop" /\ ~LoopDone(idx, Len(applications))
  /\ Pass1Skips(applications[idx])
  /\ idx' = NextRecord(idx)
  /\ UNCHANGED <<storeVars, diskVars, pass, pc, applications, processedCount,
                 hasChanges, appsToProcess, events, writes, markedFailed,
                 runsLeft>>
  /\ UNCHANGED envVars

\* index.js main, lines 66-77: try processApplication, update or mark failed
Pass1Process ==
  /\ pass = 1 /\ pc = "loop" /\ ~LoopDone(idx, Len(applications))
  /\ ~Pass1Skips(applications[idx])
  /\ LET app == applications[idx]
         isUrl == app.courseInput # Undefined /\ StartsWith(app.courseInput, "http")
     IN
     \E fr \in (IF isUrl THEN FetchReplies ELSE {NoReply}) :
       LET textOk ==
             /\ app.courseInput # Undefined
             /\ IF isUrl
                THEN LET f == fetchCourseTextFromUrl(fr)
                     IN f.err = NoErr /\ Truthy(f.val)
                ELSE Truthy(app.courseInput)
       IN
       \E gr \in (IF textOk THEN GeminiReplies ELSE {NoGemini}) :
         LET mdOk == textOk /\ extractMetadataAndInfo(gr).err = NoErr IN
         \E rr \in {resumePdf} :
           \E wr \in (IF mdOk THEN {"ok", "fail"} ELSE {"unused"}) :
             LET result == processApplication(app,
                             [fetch |-> fr, gemini |-> gr, resume |-> rr,
                              write |-> wr])
             IN
             /\ events' = events \o <<Ev("processApplication", idx)>>
                            \o EvsOf(result.calls, idx)
                            \o <<Ev(IF result.err = NoErr THEN "success"
                                    ELSE "failed", idx)>>
             /\ IF result.err = NoErr
                THEN /\ applications' =
                          [applications EXCEPT ![idx] = Pass1Success(app, result)]
                     /\ processedCount' = Pass1Counts(processedCount, TRUE)
                     /\ files' = IF wr = "ok"
                                 THEN WriteFile(result.promptPath, result.prompt)
                                 ELSE files
                     /\ writes' = IF wr = "ok"
                                  THEN Append(writes,
                                         [rec |-> idx, path |-> result.promptPath,
                                          text |-> result.prompt])
                                  ELSE writes
                     /\ unreadable' = IF wr = "ok"
                                      THEN unreadable \ {result.promptPath}
                                      ELSE unreadable
                     /\ idx' = NextRecord(idx)
                     /\ UNCHANGED <<markedFailed, pc>>
                ELSE IF Pass1Propagates(result)
                THEN /\ pc' = "fatal"
                     /\ UNCHANGED <<applications, markedFailed, processedCount,
                                    files, writes, unreadable, idx>>
                ELSE /\ applications' =
                          [applications EXCEPT ![idx] = Pass1Failure(app, result)]
                     /\ markedFailed' = markedFailed \cup {idx}
                     /\ processedCount' = Pass1Counts(processedCount, FALSE)
                     /\ idx' = NextRecord(idx)
                     /\ UNCHANGED <<files, writes, unreadable, pc>>
  /\ csv' = IF SavesAfterRecord(idx) THEN writeApplications(applications')
            ELSE csv
  /\ UNCHANGED <<csvExists, resumePdf, pass, hasChanges, appsToProcess, runsLeft>>
  /\ UNCHANGED envVars

\* index.js main, lines 80-87: persist when processedCount > 0
Pass1Finish ==
  /\ pass = 1 /\ pc = "loop" /\ LoopDone(idx, Len(applications))
  /\ IF Pass1Persists(processedCount)
     THEN \/ /\ csv' = writeApplications(applications)
             /\ events' = events \o <<Ev("writeApplications", 0)>>
             /\ pc' = "done"
          \/ /\ csv' = csv       \* the write rejects: main() ends in the top-level catch
             /\ events' = events \o <<Ev("writeApplications", 0)>>
             /\ pc' = "fatal"
     ELSE /\ csv' = csv
          /\ events' = events \o <<Ev("noWrite", 0)>>
          /\ pc' = "done"
  /\ UNCHANGED <<csvExists, diskVars, pass, applications, idx, processedCount,
                 hasChanges, appsToProcess, writes, markedFailed, runsLeft>>
  /\ UNCHANGED envVars

\* ------------------------------------------------------------ Pass 2: main
\* generateSOP.js main, lines 47-63: read, filter, return when nothing to do
Pass2Start ==
  /\ NotRunning
  /\ ConfigLoads(apiKeys)
  /\ runsLeft > 0
  /\ runsLeft' = runsLeft - 1
  /\ pass' = 2
  /\ csvExists' = TRUE
  /\ csv' = csv
  /\ applications' = readApplications(csvExists, csv)
  /\ appsToProcess' = {k \in 1..Len(applications') : Pass2Eligible(applications'[k])}
  /\ pc' = IF appsToProcess' = {} THEN "done" ELSE "loop"
  /\ idx' = 1
  /\ processedCount' = 0
  /\ hasChanges' = FALSE
  /\ events' = <<>>
  /\ writes' = <<>>
  /\ UNCHANGED <<diskVars, markedFailed>>
  /\ UNCHANGED envVars

\* generateSOP.js main, lines 65-69: records outside the queue are skipped
Pass2Skip ==
  /\ pass = 2 /\ pc = "loop" /\ ~LoopDone(idx, Len(applications))
  /\ idx \notin appsToProcess
  /\ idx' = NextRecord(idx)
  /\ UNCHANGED <<storeVars, diskVars, pass, pc, applications, processedCount,
                 hasChanges, appsToProcess, events, writes, markedFailed,
                 runsLeft>>
  /\ UNCHANGED envVars

\* generateSOP.js main, lines 71-90: try processApplication, update or classify
Pass2Process ==
  /\ pass = 2 /\ pc = "loop" /\ ~LoopDone(idx, Len(applications))
  /\ idx \in appsToProcess
  /\ LET app == applications[idx]
         exists == Exists(app.promptPath)
         readable == exists /\ app.promptPath \notin unreadable
     IN
     \E gr \in (IF readable THEN OpenRouterReplies ELSE {NoOpenRouter}) :
       \E wr \in (IF readable /\ gr.kind = "ok" /\ Truthy(gr.content)
                     /\ paths_sops # Undefined
                  THEN {"ok", "fail"} ELSE {"unused"}) :
         LET result == generateSOP_processApplication(app, exists, readable,
                         [promptText |-> IF readable THEN files[app.promptPath]
                                         ELSE <<>>,
                          openRouter |-> gr, write |-> wr])
         IN
         /\ events' = events \o <<Ev("processApplication", idx)>>
                        \o EvsOf(result.calls, idx)
                        \o <<Ev(IF result.err = NoErr THEN "success"
                                ELSE "failed", idx)>>
         /\ IF result.err = NoErr
            THEN /\ applications' =
                      [applications EXCEPT ![idx] = Pass2Success(app, result)]
                 /\ processedCount' = processedCount + 1
                 /\ files' = IF wr = "ok"
                             THEN WriteFile(result.sopPath, result.sopText)
                             ELSE files
                 /\ writes' = IF wr = "ok"
                              THEN Append(writes,
                                     [rec |-> idx, path |-> result.sopPath,
                                      text |-> result.sopText])
                              ELSE writes
                 /\ hasChanges' = Pass2Changes(hasChanges, result)
                 /\ idx' = NextRecord(idx)
                 /\ UNCHANGED pc
            ELSE IF Pass2Propagates(result)
            THEN /\ pc' = "fatal"
                 /\ UNCHANGED <<applications, processedCount, files, writes,
                                hasChanges, idx>>
            ELSE /\ applications' =
                      [applications EXCEPT ![idx] = Pass2Failure(app, result)]
                 /\ hasChanges' = Pass2Changes(hasChanges, result)
                 /\ idx' = NextRecord(idx)
                 /\ UNCHANGED <<processedCount, files, writes, pc>>
  /\ UNCHANGED <<storeVars, unreadable, resumePdf, pass, appsToProcess,
                 markedFailed, runsLeft>>
  /\ UNCHANGED envVars

\* generateSOP.js main, lines 92-103: persist when hasChanges
Pass2Finish ==
  /\ pass = 2 /\ pc = "loop" /\ LoopDone(idx, Len(applications))
  /\ IF Pass2Persists(hasChanges, processedCount)
     THEN \/ /\ csv' = writeApplications(applications)
             /\ events' = events \o <<Ev("writeApplications", 0)>>
             /\ pc' = "done"
          \/ /\ csv' = csv       \* the write rejects: main() ends in the top-level catch
             /\ events' = events \o <<Ev("writeApplications", 0)>>
             /\ pc' = "fatal"
     ELSE /\ csv' = csv
          /\ events' = events \o <<Ev("noWrite", 0)>>
          /\ pc' = "done"
  /\ UNCHANGED <<csvExists, diskVars, pass, applications, idx, processedCount,
                 hasChanges, appsToProcess, writes, markedFailed, runsLeft>>
  /\ UNCHANGED envVars

\* ------------------------------------------------- the outside, between runs
\* No script is running: the memory of the last run is gone.
NoProcess ==
  /\ pass' = 0
  /\ pc' = "idle"
  /\ applications' = <<>>
  /\ idx' = 1
  /\ processedCount' = 0
  /\ hasChanges' = FALSE
  /\ appsToProcess' = {}
  /\ events' = <<>>
  /\ writes' = <<>>

\* Someone deletes a prompt file, or takes away the permission to read it.
ExternalDelete ==
  /\ NotRunning
  /\ runsLeft > 0
  /\ \E q \in DOMAIN files :
       /\ files' = [r \in (DOMAIN files) \ {q} |-> files[r]]
       /\ unreadable' = unreadable \ {q}
  /\ NoProcess
  /\ UNCHANGED <<storeVars, resumePdf, markedFailed, runsLeft>>
  /\ UNCHANGED envVars

ExternalChmod ==
  /\ NotRunning
  /\ runsLeft > 0
  /\ \E q \in (DOMAIN files) \ unreadable : unreadable' = unreadable \cup {q}
  /\ files' = files
  /\ NoProcess
  /\ UNCHANGED <<storeVars, resumePdf, markedFailed, runsLeft>>
  /\ UNCHANGED envVars

Next ==
  \/ StartupFails
  \/ Pass1Start
  \/ Pass1ReadFails
  \/ Pass1Skip
  \/ Pass1Process
  \/ Pass1Finish
  \/ Pass2Start
  \/ Pass2ReadFails
  \/ Pass2Skip
  \/ Pass2Process
  \/ Pass2Finish
  \/ ExternalDelete
  \/ ExternalChmod

Spec == Init /\ [][Next]_vars

\* One more run, over the stores that exist, are full and have the derived
\* columns present and empty, with a readable resume: the runs of a longer
\* sequence each find the store as the run before left it.
InitLong ==
  /\ csvExists = TRUE
  /\ csv \in {c \in InitialStores :
               /\ Len(c) = MaxRecords
               /\ \A k \in 1..Len(c) :
                    c[k].promptPath = EmptyStr /\ c[k].courseInput # EmptyStr}
  /\ files = <<>>
  /\ unreadable = {}
  /\ resumePdf = "text"
  /\ pass = 0
  /\ pc = "idle"
  /\ applications = <<>>
  /\ idx = 1
  /\ processedCount = 0
  /\ hasChanges = FALSE
  /\ appsToProcess = {}
  /\ events = <<>>
  /\ writes = <<>>
  /\ markedFailed = {}
  /\ runsLeft = MaxRuns + 1
  /\ apiKeys \in KeySets
  /\ probe = NoProbe
  /\ other = NoOther

SpecLong == InitLong /\ [][Next]_vars

\* The running script is stopped from outside (SIGINT, SIGKILL, power loss)
\* somewhere in its loop: whatever it held in memory is of no use any more.
Interrupt ==
  /\ pc = "loop"
  /\ pc' = "killed"
  /\ UNCHANGED <<storeVars, diskVars, pass, applications, idx, processedCount,
                 hasChanges, appsToProcess, events, writes, markedFailed,
                 runsLeft, envVars>>

NextInterruptible == Next \/ Interrupt

\* over the longer sequences of runs, so that a stopped run of either pass can
\* be followed by the next run of the same pass
SpecInterruptible == InitLong /\ [][NextInterruptible]_vars

\* ------------------------------------------- two processes on one store
\* index.js and generateSOP.js are separate scripts: nothing in either keeps
\* the other from being started while the first one runs. The first process
\* runs index.js (the Pass 1 actions above); the second runs generateSOP.js
\* with a memory of its own, held in "other". mainAtLoad and mainAtFinish
\* record where the first process was when the second read the store and
\* when it ended.
OtherIdle ==
  [pc |-> "idle", applications |-> <<>>, appsToProcess |-> {}, idx |-> 1,
   processedCount |-> 0, hasChanges |-> FALSE, wrote |-> FALSE,
   mainAtLoad |-> "idle", mainAtFinish |-> "idle"]

\* A record an earlier Pass 1 run has processed.
ProcessedRow(k, d) ==
  LET app == NewRow(k, <<>>, <<"MSc", " ", "AI">>, EmptyStr)
      result == processApplication(app,
                  [fetch |-> NoReply,
                   gemini |-> GeminiReply("ok", "json",
                                ModelText("fence_json", Payload("object", d))),
                   resume |-> "text", write |-> "ok"])
  IN [row |-> Pass1Success(app, result), path |-> result.promptPath,
      prompt |-> result.prompt]

\* The stores both scripts have work in: some records were processed by an
\* earlier Pass 1 run (and written back by it), the others were added by the
\* user since.
ConcurrentStores ==
  UNION { { [k \in 1..n |-> IF k \in done
                            THEN [f \in DOMAIN ProcessedRow(k, d).row |->
                                    CsvCell(ProcessedRow(k, d).row[f])]
                            ELSE NewRow(k, us[k].resumeFile, us[k].courseInput,
                                        EmptyStr)] :
              us \in [1..n -> UserInputs], done \in SUBSET (1..n),
              d \in {g \in GeminiData : Truthy(g.courseName)} } :
          n \in 1..MaxRecords }

InitConcurrent ==
  /\ csvExists = TRUE
  /\ csv \in ConcurrentStores
  /\ \E present \in BOOLEAN :
       files = [q \in { csv[k].promptPath :
                          k \in {j \in 1..Len(csv) :
                                   present /\ Truthy(csv[j].promptPath)} } |->
                  <<"I am applying">>]
  /\ unreadable = {}
  /\ resumePdf \in ResumeReplies
  /\ pass = 0
  /\ pc = "idle"
  /\ applications = <<>>
  /\ idx = 1
  /\ processedCount = 0
  /\ hasChanges = FALSE
  /\ appsToProcess = {}
  /\ events = <<>>
  /\ writes = <<>>
  /\ markedFailed = {}
  /\ runsLeft = 1
  /\ apiKeys = [GEMINI_API_KEY |-> TRUE, OPENROUTER_API_KEY |-> TRUE]
  /\ probe = NoProbe
  /\ other = OtherIdle

mainVars == <<pass, pc, applications, idx, processedCount, hasChanges,
              appsToProcess, events, writes, markedFailed, runsLeft>>

\* generateSOP.js main, lines 47-63, in the second process
OtherPass2Start ==
  /\ other.pc = "idle"
  /\ ConfigLoads(apiKeys)
  /\ LET apps == readApplications(csvExists, csv)
         queue == {k \in 1..Len(apps) : Pass2Eligible(apps[k])}
     IN other' = [other EXCEPT !.pc = IF queue = {} THEN "done" ELSE "loop",
                               !.applications = apps,
                               !.appsToProcess = queue,
                               !.idx = 1,
                               !.processedCount = 0,
                               !.hasChanges = FALSE,
                               !.mainAtLoad = pc,
                               !.mainAtFinish = pc]
  /\ csvExists' = TRUE
  /\ UNCHANGED <<csv, diskVars, mainVars, apiKeys, probe>>

\* generateSOP.js main, lines 65-69, in the second process
OtherPass2Skip ==
  /\ other.pc = "loop" /\ ~LoopDone(other.idx, Len(other.applications))
  /\ other.idx \notin other.appsToProcess
  /\ other' = [other EXCEPT !.idx = NextRecord(other.idx)]
  /\ UNCHANGED <<storeVars, diskVars, mainVars, apiKeys, probe>>

\* generateSOP.js main, lines 71-90, in the second process
OtherPass2Process ==
  /\ other.pc = "loop" /\ ~LoopDone(other.idx, Len(other.applications))
  /\ other.idx \in other.appsToProcess
  /\ LET app == other.applications[other.idx]
         exists == Exists(app.promptPath)
         readable == exists /\ app.promptPath \notin unreadable
     IN
     \E gr \in (IF readable THEN OpenRouterReplies ELSE {NoOpenRouter}) :
       \E wr \in (IF readable /\ gr.kind = "ok" /\ Truthy(gr.content)
                     /\ paths_sops # Undefined
                  THEN {"ok", "fail"} ELSE {"unused"}) :
         LET result == generateSOP_processApplication(app, exists, readable,
                         [promptText |-> IF readable THEN files[app.promptPath]
                                         ELSE <<>>,
                          openRouter |-> gr, write |-> wr])
         IN
         IF result.err = NoErr
         THEN /\ other' =
                   [other EXCEPT
                      !.applications[other.idx] = Pass2Success(app, result),
                      !.processedCount = other.processedCount + 1,
                      !.hasChanges = Pass2Changes(other.hasChanges, result),
                      !.idx = NextRecord(other.idx)]
              /\ files' = IF wr = "ok"
                          THEN WriteFile(result.sopPath, result.sopText)
                          ELSE files
         ELSE IF Pass2Propagates(result)
         THEN /\ other' = [other EXCEPT !.pc = "fatal", !.mainAtFinish = pc]
              /\ files' = files
         ELSE /\ other' =
                   [other EXCEPT
                      !.applications[other.idx] = Pass2Failure(app, result),
                      !.hasChanges = Pass2Changes(other.hasChanges, result),
                      !.idx = NextRecord(other.idx)]
              /\ files' = files
  /\ UNCHANGED <<storeVars, unreadable, resumePdf, mainVars, apiKeys, probe>>

\* generateSOP.js main, lines 92-103, in the second process
OtherPass2Finish ==
  /\ other.pc = "loop" /\ LoopDone(other.idx, Len(other.applications))
  /\ IF Pass2Persists(other.hasChanges, other.processedCount)
     THEN \/ /\ csv' = writeApplications(other.applications)
             /\ other' = [other EXCEPT !.pc = "done", !.wrote = TRUE,
                                       !.mainAtFinish = pc]
          \/ /\ csv' = csv
             /\ other' = [other EXCEPT !.pc = "fatal", !.mainAtFinish = pc]
     ELSE /\ csv' = csv
          /\ other' = [other EXCEPT !.pc = "done", !.mainAtFinish = pc]
  /\ UNCHANGED <<csvExists, diskVars, mainVars, apiKeys, probe>>

NextConcurrent ==
  \/ Pass1Start
  \/ Pass1Skip
  \/ Pass1Process
  \/ Pass1Finish
  \/ OtherPass2Start
  \/ OtherPass2Skip
  \/ OtherPass2Process
  \/ OtherPass2Finish

SpecConcurrent == InitConcurrent /\ [][NextConcurrent]_vars

\* One call of geminiService.extractMetadataAndInfo on any reply of the model
\* service; no script is running.
InitExtract ==
  /\ csvExists = FALSE
  /\ csv = <<>>
  /\ files = <<>>
  /\ unreadable = {}
  /\ resumePdf = "text"
  /\ pass = 0
  /\ pc = "idle"
  /\ applications = <<>>
  /\ idx = 1
  /\ processedCount = 0
  /\ hasChanges = FALSE
  /\ appsToProcess = {}
  /\ events = <<>>
  /\ writes = <<>>
  /\ markedFailed = {}
  /\ runsLeft = 0
  /\ apiKeys = [GEMINI_API_KEY |-> TRUE, OPENROUTER_API_KEY |-> TRUE]
  /\ other = NoOther
  /\ \E r \in AllGeminiReplies :
       probe = [fn |-> "extractMetadataAndInfo", arg |-> r, returned |-> FALSE,
                out |-> extractMetadataAndInfo(NoGemini)]

ApplyExtract ==
  /\ probe.fn = "extractMetadataAndInfo"
  /\ ~probe.returned
  /\ probe' = [probe EXCEPT !.returned = TRUE,
                            !.out = extractMetadataAndInfo(probe.arg)]
  /\ UNCHANGED <<storeVars, diskVars, pass, pc, applications, idx,
                 processedCount, hasChanges, appsToProcess, events, writes,
                 markedFailed, runsLeft, apiKeys, other>>

NextExtract == ApplyExtract

SpecExtract == InitExtract /\ [][NextExtract]_vars

\* One call of openRouterProvider.generateSopFromPrompt on any prompt of up
\* to MaxPromptLen pieces and any reply of the service.
PromptTexts ==
  UNION { [1..n -> {"I am applying", " "}] : n \in 0..MaxPromptLen }

InitGenerate ==
  /\ csvExists = FALSE
  /\ csv = <<>>
  /\ files = <<>>
  /\ unreadable = {}
  /\ resumePdf = "text"
  /\ pass = 0
  /\ pc = "idle"
  /\ applications = <<>>
  /\ idx = 1
  /\ processedCount = 0
  /\ hasChanges = FALSE
  /\ appsToProcess = {}
  /\ events = <<>>
  /\ writes = <<>>
  /\ markedFailed = {}
  /\ runsLeft = 0
  /\ apiKeys = [GEMINI_API_KEY |-> TRUE, OPENROUTER_API_KEY |-> TRUE]
  /\ other = NoOther
  /\ \E t \in PromptTexts, r \in AllOpenRouterReplies :
       probe = [fn |-> "generateSopFromPrompt", arg |-> [prompt |-> t, reply |-> r],
                returned |-> FALSE,
                out |-> [sent |-> OpenRouterRequest(<<>>),
                         res |-> generateSopFromPrompt(<<>>, NoOpenRouter)]]

ApplyGenerate ==
  /\ probe.fn = "generateSopFromPrompt"
  /\ ~probe.returned
  /\ probe' = [probe EXCEPT
                 !.returned = TRUE,
                 !.out = [sent |-> OpenRouterRequest(probe.arg.prompt),
                          res |-> generateSopFromPrompt(probe.arg.prompt,
                                                        probe.arg.reply)]]
  /\ UNCHANGED <<storeVars, diskVars, pass, pc, applications, idx,
                 processedCount, hasChanges, appsToProcess, events, writes,
                 markedFailed, runsLeft, apiKeys, other>>

NextGenerate == ApplyGenerate

SpecGenerate == InitGenerate /\ [][NextGenerate]_vars

\* ---------------------------------------------------- reading the run's log
Logged(op, k) == \E j \in 1..Len(events) : events[j] = Ev(op, k)
Attempted(k) == Logged("processApplication", k)
Succeeded(k) == Logged("success", k)
Failed(k) == Logged("failed", k)
Wrote == Logged("writeApplications", 0)
Decided == Logged("writeApplications", 0) \/ Logged("noWrite", 0)
Positions == 1..Len(applications)
IsPromptPath(v) == Truthy(v) /\ StartsWith(v, "prompts")

\* The loop of a run is between the read of the store and the write: csv is
\* still the collection the run loaded.
InSweep(p) == pass = p /\ pc = "loop"
SweepOver(p) == InSweep(p) /\ idx > Len(applications)

\* C1: a record that a Pass 1 run marked FAILED_PROCESSING is never attempted
\* by Pass 1 in a later run (every attempt of a position by Pass 1 is the
\* attempt of a position no run has marked).
C1_FailedNeverRetried ==
  [][\A k \in 1..Len(applications') :
       (pass' = 1 /\ Attempted(k)' /\ ~Attempted(k)) => k \notin markedFailed]_vars

\* C2: during a Pass 1 run, a record whose promptPath was a real path or
\* FAILED_PROCESSING when the run loaded the store has every field as loaded
\* and has caused no call at all (no attempt, fetch, extractor or file write).
C2_SetRecordsUntouched ==
  InSweep(1) =>
    \A k \in Positions :
      (IsPromptPath(csv[k].promptPath) \/ csv[k].promptPath = FAILED_PROCESSING)
        => /\ applications[k] = csv[k]
           /\ \A j \in 1..Len(events) : events[j][2] # k
           /\ \A j \in 1..Len(writes) : writes[j].rec # k

C2_Witness ==
  /\ SweepOver(1)
  /\ \E k \in Positions : IsPromptPath(csv[k].promptPath)
  /\ \E k \in Positions : csv[k].promptPath = FAILED_PROCESSING

\* A Pass 2 failure that is not the missing prompt file: the existence check
\* passed (the file was opened for reading) and the attempt failed.
TransientFailure(k) == Failed(k) /\ Logged("readFile", k)

\* C3: after a Pass 2 run, a record whose attempt failed for another reason
\* than a missing prompt file has sopPath absent or empty in memory and in the
\* store, and the store's record is eligible for the next Pass 2 run.
C3_TransientStaysEligible ==
  (pass = 2 /\ pc \in {"loop", "done", "fatal"}) =>
    \A k \in Positions :
      TransientFailure(k) =>
        /\ Falsy(applications[k].sopPath)
        /\ Falsy(csv[k].sopPath)
        /\ Pass2Eligible(readApplications(csvExists, csv)[k])

C3_Witness ==
  /\ pass = 2 /\ pc = "done" /\ Wrote
  /\ \E k \in Positions :
       /\ TransientFailure(k) /\ Logged("generate", k)
       /\ csv[k].sopPath = EmptyStr

\* C4 as stated: an attempted record whose prompt file does not exist or is
\* not readable gets sopPath = FAILED_MISSING_PROMPT and the collection is
\* marked changed.  (The disk does not change while a Pass 2 run is in its
\* loop, so the file's state is the one the attempt saw.)
MissingOnDisk(k) == ~Exists(applications[k].promptPath)
UnreadableOnDisk(k) == applications[k].promptPath \in unreadable

C4_Original ==
  InSweep(2) =>
    \A k \in Positions :
      (Attempted(k) /\ (MissingOnDisk(k) \/ UnreadableOnDisk(k)))
        => applications[k].sopPath = FAILED_MISSING_PROMPT /\ hasChanges

\* C4 amended: an attempted record whose prompt file does not exist gets
\* sopPath = FAILED_MISSING_PROMPT, the collection is marked changed, the loop
\* goes on to the next record, and once the run has written the store the
\* sentinel is in it; a file that exists but cannot be read leaves sopPath
\* as it was.
C4_MissingPromptMarked ==
  (pass = 2 /\ pc \in {"loop", "done"}) =>
    \A k \in Positions :
      /\ (Attempted(k) /\ MissingOnDisk(k)) =>
            /\ applications[k].sopPath = FAILED_MISSING_PROMPT
            /\ hasChanges
            /\ idx > k
            /\ (pc = "done" => Wrote /\ csv[k].sopPath = FAILED_MISSING_PROMPT)
      /\ (Attempted(k) /\ UnreadableOnDisk(k)) => Falsy(applications[k].sopPath)

C4_Witness ==
  /\ pass = 2 /\ pc = "done"
  /\ \E k \in Positions :
       /\ Attempted(k) /\ MissingOnDisk(k)
       /\ \E m \in Positions : m > k /\ Attempted(m)
  /\ \E k \in Positions : Attempted(k) /\ UnreadableOnDisk(k)

\* C5: a record to which a Pass 2 run gave sopPath = FAILED_MISSING_PROMPT had
\* no prompt file when the run checked it, and neither the SOP Generator nor
\* an SOP file write was reached for it.
C5_SentinelOnlyForMissing ==
  InSweep(2) =>
    \A k \in Positions :
      (applications[k].sopPath = FAILED_MISSING_PROMPT
       /\ csv[k].sopPath # FAILED_MISSING_PROMPT)
        => /\ MissingOnDisk(k)
           /\ ~Logged("generate", k)
           /\ ~Logged("mkdir", k)
           /\ ~Logged("writeFile", k)

C5_Witness ==
  /\ SweepOver(2)
  /\ \E k \in Positions : applications[k].sopPath = FAILED_MISSING_PROMPT
  /\ \E k \in Positions : Failed(k) /\ Logged("generate", k)
  /\ \E k \in Positions : Failed(k) /\ Logged("mkdir", k)

\* C6: a record whose Pass 1 attempt failed, at whatever step, has promptPath
\* exactly FAILED_PROCESSING, and courseName and universityName as loaded,
\* still unset.
C6_FailureMarksOnlyPromptPath ==
  InSweep(1) =>
    \A k \in Positions :
      Failed(k) =>
        /\ applications[k].promptPath = FAILED_PROCESSING
        /\ applications[k].courseName = csv[k].courseName
        /\ applications[k].universityName = csv[k].universityName
        /\ Falsy(applications[k].courseName)
        /\ Falsy(applications[k].universityName)
        /\ applications[k] = [csv[k] EXCEPT !.promptPath = FAILED_PROCESSING]

C6_Witness ==
  /\ SweepOver(1)
  /\ \E k \in Positions : Failed(k) /\ Logged("writeFile", k)
  /\ \E k \in Positions : Failed(k) /\ ~Logged("extract", k)

\* C7: at the end of a Pass 1 run, the file at the promptPath of every record
\* that succeeded in the run holds the prompt built for that record.
C7_PromptFileIsOwn ==
  (pass = 1 /\ pc = "done") =>
    \A j \in 1..Len(writes) :
      LET k == writes[j].rec IN
      (Succeeded(k) /\ applications[k].promptPath = writes[j].path)
        => Exists(writes[j].path) /\ files[writes[j].path] = writes[j].text

\* C8: the step that ends a Pass 2 run has invoked writeApplications exactly
\* when some record's sopPath differs from the one loaded.
RunEnds(p) == pass' = p /\ pc' \in {"done", "fatal"} /\ (pc = "loop" \/ runsLeft' # runsLeft)

C8_Pass2WritesIffChanged ==
  [][RunEnds(2) =>
       (Wrote' <=> \E k \in 1..Len(applications') :
                     applications'[k].sopPath # csv[k].sopPath)]_vars

C8_Witness ==
  /\ pass = 2 /\ pc = "done" /\ Wrote
  /\ \E k \in Positions : applications[k].sopPath = FAILED_MISSING_PROMPT
  /\ \E k \in Positions : TransientFailure(k)

\* C9: the step that ends a Pass 1 run has invoked writeApplications exactly
\* when processedCount > 0, and processedCount is the number of records that
\* got a prompt path in the run; an empty collection, no eligible record or no
\* success means no write.
C9_Pass1WritesIffProcessed ==
  [][RunEnds(1) =>
       /\ Wrote' <=> processedCount' > 0
       /\ processedCount' =
            Cardinality({k \in 1..Len(applications') :
                           /\ applications'[k].promptPath # csv[k].promptPath
                           /\ applications'[k].promptPath # FAILED_PROCESSING})
       /\ (Len(applications') = 0 => ~Wrote')]_vars

C9_Witness ==
  /\ pass = 1 /\ pc = "done" /\ Wrote
  /\ \E k \in Positions : Failed(k)
  /\ \E k \in Positions : Succeeded(k)

\* C10: in both passes no failure of a record ends the run (the only fatal
\* ends are a failed read or write of the store), while records remain the
\* loop can take its next step, and when the sweep is over every record that
\* was eligible in the loaded collection has been attempted.
EligibleAtStart(k) ==
  IF pass = 1 THEN ~Pass1Skips(csv[k]) ELSE Pass2Eligible(csv[k])

LoopStep ==
  Pass1Skip \/ Pass1Process \/ Pass1Finish \/ Pass2Skip \/ Pass2Process
  \/ Pass2Finish

C10_FailureNeverAborts ==
  /\ (pc = "fatal" /\ events # <<>>) => events[Len(events)] = Ev("writeApplications", 0)
  /\ pc = "loop" => ENABLED LoopStep
  /\ \A k \in Positions : Failed(k) => idx > k
  /\ (pc \in {"done", "fatal"} /\ events # <<>>) => Decided
  /\ (pc = "loop" /\ idx > Len(applications)) =>
       \A k \in Positions : EligibleAtStart(k) => Attempted(k)

C10_Witness ==
  /\ pc = "done" /\ Decided
  /\ \E k \in Positions : Failed(k) /\ \E m \in Positions : m > k /\ Attempted(m)

\* C11: Pass 2 attempts a record exactly when its promptPath is present and
\* has no failure sentinel in it and its sopPath is absent or empty; every
\* other record is the same in memory as in the store after the sweep, and no
\* call was made for it.
C11_Selected(r) ==
  /\ r.promptPath \notin {Undefined, EmptyStr}
  /\ \A j \in 1..Len(r.promptPath) : r.promptPath[j] # "FAILED"
  /\ r.sopPath \in {Undefined, EmptyStr}

C11_AttemptedIffEligible ==
  SweepOver(2) =>
    \A k \in Positions :
      /\ Attempted(k) <=> C11_Selected(csv[k])
      /\ ~C11_Selected(csv[k]) =>
           /\ applications[k] = csv[k]
           /\ \A j \in 1..Len(events) : events[j][2] # k

C11_Witness ==
  /\ SweepOver(2)
  /\ \E k \in Positions : csv[k].sopPath = FAILED_MISSING_PROMPT /\ ~Attempted(k)
  /\ \E k \in Positions : Attempted(k) /\ Logged("generate", k)

\* C12: a record that Pass 2 attempts, whose prompt file was read and for
\* which the SOP generator returned text, has its SOP file written under the
\* SOP output directory, sopPath set to that path, the processed count
\* incremented and the collection marked changed (a refused file write aside).
GeneratorReturnedText(k) == Logged("mkdir", k) \/ Logged("writeFile", k)

C12_GeneratedIsSaved ==
  InSweep(2) =>
    \A k \in Positions :
      (GeneratorReturnedText(k) /\ ~(Failed(k) /\ Logged("writeFile", k))) =>
        /\ Succeeded(k)
        /\ Truthy(applications[k].sopPath)
        /\ ~Includes(applications[k].sopPath, "FAILED")
        /\ Exists(applications[k].sopPath)
        /\ processedCount > 0
        /\ hasChanges

\* C13: a record attempted in this run holds a path in promptPath (Pass 1) or
\* sopPath (Pass 2) only if this run wrote the file at that path for it and the
\* file exists; an attempt whose file write was refused leaves no path in the
\* field.
IsRealPath(v) == Truthy(v) /\ \A j \in 1..Len(v) : v[j] # "FAILED"
WrittenFor(k, path) ==
  /\ \E j \in 1..Len(writes) : writes[j].rec = k /\ writes[j].path = path
  /\ path \in DOMAIN files
WriteRefused(k) == Failed(k) /\ Logged("writeFile", k)

C13_PathOnlyAfterWrite ==
  \A k \in Positions :
    /\ (pass = 1 /\ Attempted(k)) =>
         /\ IsRealPath(applications[k].promptPath) =>
              WrittenFor(k, applications[k].promptPath)
         /\ WriteRefused(k) => ~IsRealPath(applications[k].promptPath)
    /\ (pass = 2 /\ Attempted(k)) =>
         /\ IsRealPath(applications[k].sopPath) =>
              WrittenFor(k, applications[k].sopPath)
         /\ WriteRefused(k) => ~IsRealPath(applications[k].sopPath)

C13_Witness ==
  /\ pass = 1
  /\ \E k \in Positions :
       Succeeded(k) /\ WrittenFor(k, applications[k].promptPath)
  /\ \E k \in Positions : WriteRefused(k)

\* C14: no step of either pass changes the number or the order of the stored
\* records or a stored candidateName, resumeFile or courseInput; during a
\* sweep the records in memory are the stored ones in these respects.
SameInputs(r, t) ==
  /\ r.candidateName = t.candidateName
  /\ r.resumeFile = t.resumeFile
  /\ r.courseInput = t.courseInput

C14_RowsAndInputsKept ==
  /\ [][/\ Len(csv') = Len(csv)
        /\ \A k \in 1..Len(csv) : SameInputs(csv'[k], csv[k])]_vars
  /\ [](pc = "loop" =>
          /\ Len(applications) = Len(csv)
          /\ \A k \in 1..Len(csv) : SameInputs(applications[k], csv[k]))

C14_Witness ==
  /\ pc = "done" /\ Wrote
  /\ Len(csv) = MaxRecords
  /\ \E k \in 1..Len(csv) : csv[k].promptPath = FAILED_PROCESSING
  /\ \E k \in 1..Len(csv) : IsPromptPath(csv[k].promptPath)
                              /\ Truthy(csv[k].courseName)

\* C15: a run calls writeApplications at most once, and only when the loop has
\* gone past the last record; the stored rows change in no other step, and the
\* only other change of the store is the header-only file that
\* readApplications creates for a run that then has no record at all.
WriteCalls == {j \in 1..Len(events) : events[j] = Ev("writeApplications", 0)}

C15_OneWriteAfterSweep ==
  /\ [](/\ Cardinality(WriteCalls) <= 1
        /\ Wrote => /\ idx > Len(applications)
                    /\ events[Len(events)] = Ev("writeApplications", 0))
  /\ [][csv' # csv => (~Wrote /\ Wrote')]_vars
  /\ [][csvExists' # csvExists => (applications' = <<>> /\ csv' = csv)]_vars

C15_Witness ==
  /\ pc = "done" /\ Wrote
  /\ Len(applications) = MaxRecords
  /\ \A k \in Positions : Attempted(k)

\* C16: in Pass 1 an attempt that reached the reading of the resume always
\* goes on to the writing of the prompt file, whatever the reading gave; a
\* record processed with no resume read (none named, or the named one missing
\* or unparsable) gets courseName, universityName and a real promptPath, and
\* the prompt written for it is the variant without resume information.
ResumeNotRead(k) ==
  Falsy(applications[k].resumeFile) \/ resumePdf \in {"missing", "unparsable"}

IsResumeAbsentPrompt(text) ==
  /\ \E j \in 1..Len(text) : text[j] = "Please take all the required details"
  /\ \A j \in 1..Len(text) : text[j] \notin {"--- My Resume Information ---", "cvtext"}

C16_UnreadResumeNotFatal ==
  pass = 1 =>
    \A k \in Positions :
      /\ Logged("readResume", k) => Logged("writeFile", k)
      /\ (Succeeded(k) /\ ResumeNotRead(k)) =>
           /\ Truthy(applications[k].courseName)
           /\ Truthy(applications[k].universityName)
           /\ IsPromptPath(applications[k].promptPath)
           /\ \E j \in 1..Len(writes) :
                /\ writes[j].rec = k
                /\ writes[j].path = applications[k].promptPath
                /\ IsResumeAbsentPrompt(writes[j].text)

C16_Witness ==
  /\ pass = 1
  /\ resumePdf \in {"missing", "unparsable"}
  /\ \E k \in Positions :
       /\ Truthy(applications[k].resumeFile)
       /\ Logged("readResume", k)
       /\ Succeeded(k)
  /\ \E k \in Positions : Falsy(applications[k].resumeFile) /\ Succeeded(k)

\* C17: when one of the two API keys is not set, a step of a script neither
\* reads nor writes the record store, writes no prompt or SOP file and calls
\* no model service: the process has exited with nothing loaded and nothing
\* logged.
KeyMissing == ~apiKeys.GEMINI_API_KEY \/ ~apiKeys.OPENROUTER_API_KEY

C17_NoKeyNothingTouched ==
  [][(KeyMissing /\ pass' # 0) =>
       /\ pc' = "exited"
       /\ csvExists' = csvExists /\ csv' = csv
       /\ files' = files
       /\ applications' = <<>>
       /\ events' = <<>> /\ writes' = <<>>]_vars

C17_Witness ==
  /\ pc = "exited"
  /\ apiKeys.GEMINI_API_KEY /\ ~apiKeys.OPENROUTER_API_KEY
  /\ Len(csv) = MaxRecords
  /\ runsLeft = 0

\* C18: the collection a run reads from the store that the run before it
\* wrote is the written collection: same length, same order, and every field
\* equal except that a field that was absent when written is read as the empty
\* string.
ReadsWhatWasWritten ==
  /\ pc = "done" /\ Wrote
  /\ runsLeft' = runsLeft - 1
  /\ pc' \in {"loop", "done"}

AbsentAsEmpty(r) ==
  [f \in DOMAIN r |-> IF r[f] = Undefined THEN EmptyStr ELSE r[f]]

AttemptsOf(k) == {j \in 1..Len(events) : events[j] = Ev("processApplication", k)}
IsOutcome(e) == e[1] \in {"success", "failed"}

C19_OneRecordAtATime ==
  /\ [](pc = "loop" =>
          /\ \A j \in 1..Len(events) :
               /\ events[j][2] \in Positions /\ events[j][2] < idx + 1
               /\ j > 1 =>
                    \/ /\ events[j][2] = events[j - 1][2]
                       /\ ~IsOutcome(events[j - 1])
                       /\ events[j][1] # "processApplication"
                    \/ /\ events[j][2] > events[j - 1][2]
                       /\ IsOutcome(events[j - 1])
                       /\ events[j][1] = "processApplication"
               /\ j = 1 => events[j][1] = "processApplication"
          /\ events # <<>> => IsOutcome(events[Len(events)])
          /\ \A k \in Positions : Cardinality(AttemptsOf(k)) <= 1
          /\ idx <= Len(applications) + 1
          /\ ENABLED LoopStep
          /\ idx > Len(applications) =>
               \A k \in Positions :
                 Cardinality(AttemptsOf(k)) = (IF EligibleAtStart(k) THEN 1 ELSE 0))
  /\ [][pc = "loop" =>
         \/ pc' = "loop" /\ pass' = pass /\ idx' = idx + 1
         \/ pc' # "loop"]_vars

C19_Witness ==
  /\ pc = "loop" /\ idx > Len(applications)
  /\ Len(applications) = MaxRecords
  /\ \A k \in Positions : Cardinality(AttemptsOf(k)) = 1
  /\ \E k \in Positions : Logged("fetch", k) /\ Logged("extract", k)

\* C20: the metadata extractor fails only on a transport error, a non-success
\* HTTP response or a text that does not parse as JSON (a response body that
\* is not JSON counted with these), and for every response whose cleaned text
\* parses as JSON it returns course, university, country and courseInfo, each
\* the value of the parsed object or, where that is missing, its placeholder.
OrPlaceholder(v, placeholder) ==
  IF v \in {Undefined, EmptyStr} THEN placeholder ELSE v

Defaulted(d) ==
  [course |-> OrPlaceholder(d.courseName, <<"Unknown", " ", "Course">>),
   university |-> OrPlaceholder(d.universityName, <<"Unknown", " ", "University">>),
   country |-> OrPlaceholder(d.country, <<"Unknown", " ", "Country">>),
   courseInfo |-> OrPlaceholder(d.summary, <<"Info not available.">>)]

ExtractReturned == probe.fn = "extractMetadataAndInfo" /\ probe.returned

C20_FailsOnlyOnListedCauses ==
  ExtractReturned =>
    LET r == probe.arg IN
    /\ probe.out.err # NoErr =>
         \/ r.kind \in {"transport", "http"}
         \/ r.body = "notjson"
         \/ r.text.payload.type = "invalid"
    /\ (r.kind = "ok" /\ r.body = "json" /\ r.text.payload.type # "invalid") =>
         /\ probe.out.err = NoErr
         /\ probe.out.val = Defaulted(r.text.payload.data)

\* C21: the SOP generator sends the whole prompt as the content of its
\* request and returns the content of the reply as it is; it fails exactly
\* on a transport error, a non-success HTTP status, a body that is not JSON,
\* or a content that is missing, null or empty.
GenerateReturned == probe.fn = "generateSopFromPrompt" /\ probe.returned

\* the generator fails exactly on a transport error, a non-success status or
\* a payload without a content (a body that is not JSON and a null content
\* counted as such)
C21_Original ==
  GenerateReturned =>
    LET r == probe.arg.reply IN
    /\ probe.out.sent.content = probe.arg.prompt
    /\ probe.out.res.err # NoErr <=>
         \/ r.kind \in {"transport", "http", "notjson"}
         \/ r.content \in {Undefined, Null}
    /\ probe.out.res.err = NoErr => probe.out.res.val = r.content

C21_FullPromptContentUnchanged ==
  GenerateReturned =>
    LET r == probe.arg.reply IN
    /\ probe.out.sent.content = probe.arg.prompt
    /\ probe.out.res.err # NoErr <=>
         \/ r.kind \in {"transport", "http", "notjson"}
         \/ r.content \in {Undefined, Null, EmptyStr}
    /\ probe.out.res.err = NoErr => probe.out.res.val = r.content

C21_Witness ==
  /\ GenerateReturned
  /\ Len(probe.arg.prompt) = MaxPromptLen
  /\ probe.arg.reply.content = <<" ", "Dear", " ">>
  /\ probe.out.sent.content = probe.arg.prompt
  /\ probe.out.res.err = NoErr
  /\ probe.out.res.val = <<" ", "Dear", " ">>

\* C22: every file Pass 1 writes is <sanitized course>_<sanitized
\* university>_prompt.txt in the prompts directory, and for every record for
\* which the generator returned text Pass 2 writes a file named as the prompt
\* file with _sop.txt in place of the trailing _prompt.txt.
LastPiece(path) == path[Len(path)]

C22_FileNamesDerived ==
  /\ pass = 1 =>
       \A j \in 1..Len(writes) :
         LET r == applications[writes[j].rec] IN
         writes[j].path =
           PathJoin(paths_prompts,
                    sanitizeFileName(r.courseName) \o <<"_">>
                    \o sanitizeFileName(r.universityName) \o <<"_prompt.txt">>)
  /\ pass = 2 =>
       \A k \in Positions :
         (GeneratorReturnedText(k) /\ ~WriteRefused(k)) =>
           \E j \in 1..Len(writes) :
             /\ writes[j].rec = k
             /\ LastPiece(writes[j].path) = "_sop.txt"
             /\ LET name == Basename(applications[k].promptPath) IN
                SubSeq(Basename(writes[j].path), 1, Len(name) - 1)
                  = SubSeq(name, 1, Len(name) - 1)

\* C23: during the sweep of a run the processed count is the number of
\* records whose promptPath (Pass 1) or sopPath (Pass 2) was absent or empty
\* in the loaded store and is now a path, not a sentinel, that this run wrote
\* a file at; a failed or skipped record is not among them.
NewlyWritten(k, field) ==
  /\ csv[k][field] \in {Undefined, EmptyStr}
  /\ IsRealPath(applications[k][field])
  /\ WrittenFor(k, applications[k][field])

C23_CountIsNewPaths ==
  /\ InSweep(1) =>
       /\ processedCount = Cardinality({k \in Positions : NewlyWritten(k, "promptPath")})
       /\ \A k \in Positions :
            (Failed(k) \/ ~Attempted(k)) => ~NewlyWritten(k, "promptPath")
  /\ InSweep(2) =>
       /\ processedCount = Cardinality({k \in Positions : NewlyWritten(k, "sopPath")})
       /\ \A k \in Positions :
            (Failed(k) \/ ~Attempted(k)) => ~NewlyWritten(k, "sopPath")

C23_Witness ==
  /\ SweepOver(1)
  /\ Len(applications) = MaxRecords
  /\ processedCount = 1
  /\ \E k \in Positions : Failed(k)
  /\ \E k \in Positions : Succeeded(k) /\ NewlyWritten(k, "promptPath")

\* C24: no step of a Pass 1 run changes a sopPath, in memory or in the store,
\* and no step of a Pass 2 run changes a promptPath, courseName or
\* universityName (an absent field written as an empty one is no change); and
\* no step at all changes a stored promptPath or sopPath that is not empty.
AsStored(v) == IF v = Undefined THEN EmptyStr ELSE v

KeepsField(field) ==
  /\ Len(csv') = Len(csv)
  /\ \A k \in 1..Len(csv) : AsStored(csv'[k][field]) = AsStored(csv[k][field])
  /\ \A k \in 1..Len(applications) :
       applications'[k][field] = applications[k][field]

C24_PassesKeepEachOthersFields ==
  /\ [][(pass = 1 /\ pc = "loop") => KeepsField("sopPath")]_vars
  /\ [][(pass = 2 /\ pc = "loop") =>
          /\ KeepsField("promptPath")
          /\ KeepsField("courseName")
          /\ KeepsField("universityName")]_vars
  /\ [][\A k \in 1..Len(csv) :
          /\ csv[k].promptPath \notin {Undefined, EmptyStr} =>
               csv'[k].promptPath = csv[k].promptPath
          /\ csv[k].sopPath \notin {Undefined, EmptyStr} =>
               csv'[k].sopPath = csv[k].sopPath]_vars

C24_Witness ==
  /\ pass = 2 /\ pc = "done" /\ Wrote
  /\ \E k \in 1..Len(csv) :
       /\ csv[k].sopPath = FAILED_MISSING_PROMPT
       /\ IsPromptPath(csv[k].promptPath)
       /\ Truthy(csv[k].courseName)

\* C25: in the store and in memory, every record whose sopPath is not empty
\* has a promptPath that is not empty and has no FAILED in it; a record whose
\* promptPath is FAILED_PROCESSING has no sopPath.
HasSopPath(r) == r.sopPath \notin {Undefined, EmptyStr}

SopImpliesPrompt(r) ==
  /\ HasSopPath(r) =>
       /\ r.promptPath \notin {Undefined, EmptyStr}
       /\ \A j \in 1..Len(r.promptPath) : r.promptPath[j] # "FAILED"
  /\ r.promptPath = FAILED_PROCESSING => ~HasSopPath(r)

C25_SopPathOnlyWithPrompt ==
  /\ \A k \in 1..Len(csv) : SopImpliesPrompt(csv[k])
  /\ \A k \in 1..Len(applications) : SopImpliesPrompt(applications[k])

C25_Witness ==
  /\ pass = 2 /\ pc = "done" /\ Wrote
  /\ \E k \in 1..Len(csv) : HasSopPath(csv[k])
  /\ \E k \in 1..Len(csv) : csv[k].promptPath = FAILED_PROCESSING

\* C26: two different records that both succeed in the same Pass 1 run have
\* different promptPaths, and the file at each one's promptPath is not
\* written again for a later record.
C26_DistinctPromptPaths ==
  pass = 1 =>
    /\ \A k, m \in Positions :
         (k # m /\ Succeeded(k) /\ Succeeded(m)) =>
           applications[k].promptPath # applications[m].promptPath
    /\ \A i, j \in 1..Len(writes) :
         (i < j /\ writes[i].rec # writes[j].rec) => writes[i].path # writes[j].path

\* C27: no step of a run before its end-of-pass write changes the store, a
\* stop of the script included; while a run is in its loop, and after it was
\* stopped there, the stored records are the loaded ones (every record the
\* run has not attempted is in memory as it is stored); and after a stop the
\* records the store makes eligible are those the stopped run found eligible,
\* which is also what the next run of the same pass selects.
Pass1Selected(r) == r.promptPath \in {Undefined, EmptyStr}

C27_InterruptKeepsStore ==
  /\ [][(pc = "loop" /\ ~Wrote') => (csv' = csv /\ csvExists' = csvExists)]_vars
  /\ [](pc \in {"loop", "killed"} =>
          /\ Len(applications) = Len(csv)
          /\ \A k \in 1..Len(csv) : ~Attempted(k) => applications[k] = csv[k])
  /\ [](pc = "killed" =>
          /\ pass = 1 =>
               \A k \in 1..Len(csv) : k < idx => (Attempted(k) <=> Pass1Selected(csv[k]))
          /\ pass = 2 =>
               appsToProcess = {k \in 1..Len(csv) : C11_Selected(csv[k])})
  /\ [][(pc = "killed" /\ pass = 2 /\ pass' = 2 /\ pc' \in {"loop", "done"}) =>
          appsToProcess' = appsToProcess]_vars

C27_Witness ==
  /\ pc = "killed" /\ pass = 1
  /\ idx <= Len(applications)
  /\ \E k \in Positions :
       /\ Succeeded(k)
       /\ applications[k].promptPath \in DOMAIN files
       /\ Pass1Selected(csv[k])

\* ------------------------------------------------------------------- C28
\* Both processes have ended without a fatal error.
BothFinished == pass = 1 /\ pc = "done" /\ other.pc = "done"

\* the fields a Pass 1 run sets, and the field a Pass 2 run sets
Pass1Fields == {"courseName", "universityName", "promptPath"}
Pass2Fields == {"sopPath"}

\* Every field a run wrote is in the store as that run held it.
UpdatesOfPass1Stored ==
  Wrote => /\ Len(csv) = Len(applications)
           /\ \A k \in 1..Len(applications) : \A f \in Pass1Fields :
                csv[k][f] = AsStored(applications[k][f])
UpdatesOfPass2Stored ==
  other.wrote => /\ Len(csv) = Len(other.applications)
                 /\ \A k \in 1..Len(other.applications) : \A f \in Pass2Fields :
                      csv[k][f] = AsStored(other.applications[k][f])

\* The runs did not overlap: the first process had ended when the second
\* read the store, or had not started when the second ended.
RanInTurn == other.mainAtLoad = "done" \/ other.mainAtFinish = "idle"

\* C28 as stated: after a Pass 1 run and a Pass 2 run on the same store have
\* both finished, however their steps interleaved, every field update either
\* of them persisted is still in the store.
C28_Original ==
  BothFinished => (UpdatesOfPass1Stored /\ UpdatesOfPass2Stored)

\* C28: after both runs have finished, the store is the whole collection of
\* a run that wrote, as that run held it in memory (the last rewrite wins,
\* and the updates the other run persisted in between are gone from it); the
\* updates of both runs are all in the store when the runs did not overlap.
C28_LastRewriteWins ==
  BothFinished =>
    /\ (Wrote \/ other.wrote) =>
         csv \in ({writeApplications(applications) : w \in {TRUE} \cap {Wrote}}
                   \cup {writeApplications(other.applications) :
                           w \in {TRUE} \cap {other.wrote}})
    /\ RanInTurn => (UpdatesOfPass1Stored /\ UpdatesOfPass2Stored)

\* The runs overlapped, both wrote, and a prompt path the Pass 1 run
\* persisted is not in the store any more.
C28_Witness ==
  /\ BothFinished /\ Wrote /\ other.wrote /\ ~RanInTurn
  /\ csv = writeApplications(other.applications)
  /\ \E k \in 1..Len(applications) :
       /\ IsPromptPath(applications[k].promptPath)
       /\ csv[k].promptPath = EmptyStr

====
